---- MODULE Spec2Model ----
(***************************************************************************)
(* uv-workspace-codegen: package discovery, configuration resolution,      *)
(* template loading, workflow generation (write and diff mode) and the     *)
(* stale-workflow sweep of src/uv_workspace_codegen/main.py.               *)
(*                                                                         *)
(* Strings that the code splits or joins are kept split: a project name is *)
(* the sequence of its '-'-separated pieces ("x-p" is <<"x", "p">>), a     *)
(* template file name the sequence of its '.'-separated pieces, a          *)
(* directory the sequence of its path components, and a file's text a      *)
(* sequence of text pieces and line-boundary characters.                   *)
(***************************************************************************)
EXTENDS Naturals, Sequences, FiniteSets, TLC

VARIABLES
    env,    \* what a run cannot change: where the workspace is, the bundled template
    fs,     \* the workspace on disk: manifests, template directory, output directory
    run,    \* the state of the current invocation of main
    hist,   \* the workspace when the current run began, and the previous run
    disc,   \* the result of the last call of discover_packages
    call    \* a function of the program called on its own: arguments and result

vars == <<env, fs, run, hist, disc, call>>

-----------------------------------------------------------------------------
(* Bounds of the model *)

\* at most this many directories below the root hold a manifest
MaxManifests == 2
\* at most this many files are in the output directory before the first run
MaxOutFiles == 1
\* at most this many invocations of main follow one another
MaxRuns == 2

-----------------------------------------------------------------------------
(* The directory tree below the workspace root, as relative paths *)

Root == <<>>

Dirs ==
    { Root,
      <<"libs">>, <<"libs", "core">>, <<"libs", ".venv">>,
      <<".venv">>, <<".venv", "core">>,
      <<"__pycache__">>, <<"__pycache__", "core">> }

\* os.walk lists the entries of a directory in the order the file system gives
DirOrder == <<"libs", "core", ".venv", "__pycache__">>

\* str.startswith(".") on the directory names of the model
StartsWithDot(name) == name \in {".venv", ".github"}

Children(path) ==
    SelectSeq([i \in 1..Len(DirOrder) |-> Append(path, DirOrder[i])],
              LAMBDA p : p \in Dirs)

Parts(path) == {path[i] : i \in 1..Len(path)}

RECURSIVE Flatten(_)
Flatten(seqs) == IF seqs = <<>> THEN <<>> ELSE Head(seqs) \o Flatten(Tail(seqs))

-----------------------------------------------------------------------------
(* Manifests (pyproject.toml), as tomllib.load and the code read them *)

Absent == "absent"

\* kind: "missing" no file, "toml_error" tomllib.TOMLDecodeError,
\*       "bad_encoding" not UTF-8 (UnicodeDecodeError), "parsed"
\* block: tool.uv-workspace-codegen is "absent", a "table", or a "scalar"
\* name_shape: project.name is "absent", a "string" (name), or a "scalar"
\*       (project is no table, or name is no string)
Manifest(kind, block, generate, tt, name_shape, name, settings, custom) ==
    [ kind |-> kind, block |-> block, generate |-> generate,
      template_type |-> tt, name_shape |-> name_shape, name |-> name,
      typechecker |-> IF settings THEN "ty" ELSE Absent,
      generate_typechecking_step |-> IF settings THEN "false" ELSE Absent,
      generate_standard_pytest_step |-> IF settings THEN "true" ELSE Absent,
      generate_alembic_migration_check_step |-> IF settings THEN "true" ELSE Absent,
      custom_steps |-> custom,
      default_template_type |-> Absent, template_dir |-> Absent,
      uv_workspace |-> FALSE ]

NoManifest == Manifest("missing", Absent, Absent, Absent, Absent, <<"">>, FALSE, Absent)

Opted(tt, name_shape, name, settings, custom) ==
    Manifest("parsed", "table", "true", tt, name_shape, name, settings, custom)

\* dict.get(key, default) on a table of the manifest
Get(table, key, default) == IF table[key] = Absent THEN default ELSE table[key]

Truthy(v) == v = "true"

-----------------------------------------------------------------------------
(* Package and discovery *)

RECURSIVE JoinWith(_, _)
\* sep.join(pieces)
JoinWith(pieces, sep) ==
    IF Len(pieces) = 0 THEN ""
    ELSE IF Len(pieces) = 1 THEN pieces[1]
    ELSE pieces[1] \o sep \o JoinWith(Tail(pieces), sep)

\* project_name.replace("-", "_")
ReplaceHyphens(name) == JoinWith(name, "_")

\* Path.name of a directory: its last component, "" for the file system root
BaseName(absparts) == IF absparts = <<>> THEN "" ELSE absparts[Len(absparts)]

NoException == "none"

EmptyConfig == NoManifest

\* get_workspace_config: the root manifest's tool.uv-workspace-codegen block,
\* {} when there is no manifest, no block, or a TOML error
get_workspace_config(manifests) ==
    LET m == manifests[Root] IN
    IF m.kind = "missing" THEN [config |-> EmptyConfig, raised |-> NoException]
    ELSE IF m.kind = "toml_error" THEN [config |-> EmptyConfig, raised |-> NoException]
    ELSE IF m.kind = "bad_encoding"
         THEN [config |-> EmptyConfig, raised |-> "UnicodeDecodeError"]
    ELSE IF m.block = Absent THEN [config |-> EmptyConfig, raised |-> NoException]
    ELSE [config |-> m, raised |-> NoException]

Package(name, path, tt, gh_config, custom_steps) ==
    [ name |-> name,
      path |-> path,
      package_name |-> ReplaceHyphens(name),
      template_type |-> tt,
      generate_standard_pytest_step |-> Get(gh_config, "generate_standard_pytest_step", "false"),
      typechecker |-> Get(gh_config, "typechecker", "mypy"),
      generate_typechecking_step |-> Get(gh_config, "generate_typechecking_step", "true"),
      generate_alembic_migration_check_step |->
          Get(gh_config, "generate_alembic_migration_check_step", "false"),
      custom_steps |-> custom_steps ]

Found(pkgs, raised, warned) == [packages |-> pkgs, raised |-> raised, warned |-> warned]

\* a resolution that forgets the workspace-level default
ResolveTemplateTypeNoWorkspace(gh_config, workspace_config) ==
    Get(gh_config, "template_type", "package")

\* the template type of a package: its own, else the workspace default, else "package"
ResolveTemplateType(gh_config, workspace_config) ==
    Get(gh_config, "template_type", Get(workspace_config, "default_template_type", "package"))

\* custom_steps: yaml.safe_load of the string, [] when empty or not YAML
ParseCustomSteps(gh_config) ==
    IF gh_config.custom_steps = "valid"
    THEN [steps |-> "steps", warned |-> FALSE]
    ELSE [steps |-> "empty", warned |-> gh_config.custom_steps = "invalid"]

\* _discover_in_directory(target_dir, workspace_dir, workspace_config, check_root)
DiscoverInDirectory(wsParts, manifests, target, workspace_config, check_root) ==
    LET m == manifests[target] IN
    IF m.kind = "missing" THEN Found(<<>>, NoException, FALSE)
    ELSE IF m.kind = "toml_error" THEN Found(<<>>, NoException, TRUE)
    ELSE IF m.kind = "bad_encoding" THEN Found(<<>>, "UnicodeDecodeError", FALSE)
    ELSE IF m.block = "scalar" THEN Found(<<>>, "AttributeError", FALSE)
    ELSE IF m.block = Absent \/ ~Truthy(Get(m, "generate", "false"))
         THEN Found(<<>>, NoException, FALSE)
    ELSE IF workspace_config.block = "scalar" THEN Found(<<>>, "AttributeError", FALSE)
    ELSE IF m.name_shape = "scalar" THEN Found(<<>>, "AttributeError", FALSE)
    ELSE
        LET tt == ResolveTemplateType(m, workspace_config)
            project_name == IF m.name_shape = "string" THEN m.name
                            ELSE <<BaseName(wsParts \o target)>>
            custom == ParseCustomSteps(m)
            relative_path == IF check_root THEN <<".">> ELSE target
        IN  Found(<<Package(project_name, relative_path, tt, m, custom.steps)>>,
                  NoException, custom.warned)

\* a test that forgets hidden directories
SkipDirectoryNoHidden(wsParts, path) == "__pycache__" \in Parts(wsParts \o path)

\* the test of lines 56-62: a hidden component below the workspace, or
\* "__pycache__" anywhere in the absolute path
SkipDirectory(wsParts, path) ==
    \/ \E part \in Parts(path) : StartsWithDot(part)
    \/ "__pycache__" \in Parts(wsParts \o path)

RECURSIVE WalkFrom(_, _)
\* the directories os.walk hands to _discover_in_directory, in order:
\* a skipped directory is not examined and not descended into (dirs[:] = [])
WalkFrom(wsParts, path) ==
    IF SkipDirectory(wsParts, path) THEN <<>>
    ELSE (IF path # Root THEN <<path>> ELSE <<>>)
         \o Flatten([i \in 1..Len(Children(path)) |-> WalkFrom(wsParts, Children(path)[i])])

RECURSIVE Scan(_, _, _, _, _)
\* the loop of discover_packages over the directories still to examine
Scan(wsParts, manifests, workspace_config, todo, acc) ==
    IF todo = <<>> \/ acc.raised # NoException THEN acc
    ELSE LET d == Head(todo)
             r == DiscoverInDirectory(wsParts, manifests, d, workspace_config, FALSE)
         IN  Scan(wsParts, manifests, workspace_config, Tail(todo),
                  [ packages |-> acc.packages \o r.packages,
                    examined |-> Append(acc.examined, d),
                    raised |-> r.raised,
                    warnings |-> IF r.warned THEN Append(acc.warnings, d) ELSE acc.warnings ])

\* discover_packages(workspace_dir, workspace_config)
discover_packages(wsParts, manifests, workspace_config) ==
    LET r0 == DiscoverInDirectory(wsParts, manifests, Root, workspace_config, TRUE)
        acc0 == [ packages |-> r0.packages, examined |-> <<Root>>, raised |-> r0.raised,
                  warnings |-> IF r0.warned THEN <<Root>> ELSE <<>> ]
    IN  Scan(wsParts, manifests, workspace_config, WalkFrom(wsParts, Root), acc0)

-----------------------------------------------------------------------------
(* File text: a sequence of pieces; "NL" is a newline, "FF" a form feed *)

MarkerLine == "# This file was automatically generated by uv-workspace-codegen"
DocLine == "# For more information, see: https://github.com/epoch8/uv-workspace-codegen/blob/master/README.md"
WarnLine == "# Do not edit this file manually - changes will be overwritten"

\* autogen_comment of generate_workflow
AutogenComment == <<MarkerLine, "NL", DocLine, "NL", WarnLine, "NL", "NL">>

\* f.read(500) of _check_and_delete_stale_file
HeaderChars == 500

\* the number of characters of a piece; "PAD" is a preamble longer than the header read
Width(piece) ==
    IF piece \in {"NL", "FF"} THEN 1
    ELSE IF piece = "PAD" THEN HeaderChars + 1
    ELSE Len(piece)

RECURSIVE TextWidth(_)
TextWidth(text) == IF text = <<>> THEN 0 ELSE Width(Head(text)) + TextWidth(Tail(text))

\* "# This file was automatically generated ..." in f.read(500)
MarkerInHeader(text) ==
    \E i \in 1..Len(text) :
        /\ text[i] = MarkerLine
        /\ TextWidth(SubSeq(text, 1, i - 1)) + Len(MarkerLine) <= HeaderChars

RECURSIVE SplitAfter(_, _, _)
\* the lines of text, each kept with its line end, a line ending after every
\* piece of `ends`
SplitAfter(text, ends, line) ==
    IF text = <<>> THEN (IF line = <<>> THEN <<>> ELSE <<line>>)
    ELSE IF Head(text) \in ends
         THEN <<Append(line, Head(text))>> \o SplitAfter(Tail(text), ends, <<>>)
         ELSE SplitAfter(Tail(text), ends, Append(line, Head(text)))

\* f.readlines() of a file opened in text mode: lines end at newlines
ReadLines(text) == SplitAfter(text, {"NL"}, <<>>)

\* str.splitlines(keepends=True): lines end at newlines and at form feeds
SplitLinesKeepEnds(text) == SplitAfter(text, {"NL", "FF"}, <<>>)

\* difflib.unified_diff yields something exactly when the line lists differ
UnifiedDiffNonEmpty(existing_lines, new_lines) == existing_lines # new_lines

-----------------------------------------------------------------------------
(* Rendering: template.render(package=package) *)

RECURSIVE RenderPieces(_, _)
RenderPieces(body, package) ==
    IF body = <<>> THEN <<>>
    ELSE LET piece == Head(body)
             out == IF piece = "{name}" THEN JoinWith(package.name, "-")
                    ELSE IF piece = "{path}" THEN JoinWith(package.path, "/")
                    ELSE IF piece = "{package_name}" THEN package.package_name
                    ELSE piece
         IN  <<out>> \o RenderPieces(Tail(body), package)

\* a template that uses an undefined filter raises when it is rendered
RenderRaises(body) == \E i \in 1..Len(body) : body[i] = "{undefined|filter}"

\* a file name that leaves the suffix out
WorkflowFilenameNoSuffix(template_type, suffix, name) ==
    [stem |-> <<template_type>> \o name, ext |-> "yml"]

\* workflow_filename of generate_workflow
WorkflowFilename(template_type, suffix, name) ==
    [ stem |-> IF suffix # "" THEN <<template_type, suffix>> \o name
               ELSE <<template_type>> \o name,
      ext |-> "yml" ]

\* the disk with `file` written (created, or its text replaced)
WriteFile(out, file, text) ==
    [f \in DOMAIN out \cup {file} |->
        IF f = file
        THEN [text |-> text, readable |-> IF file \in DOMAIN out THEN out[file].readable ELSE TRUE]
        ELSE out[f]]

Generated(raised, out, path, text, diff) ==
    [raised |-> raised, out |-> out, path |-> path, text |-> text, diff |-> diff]

\* generate_workflow(package, template, output_dir, diff_mode, suffix) on the
\* files `out` of the output directory
generate_workflow(package, body, out, diff_mode, suffix) ==
    LET workflow_path == WorkflowFilename(package.template_type, suffix, package.name) IN
    IF RenderRaises(body) THEN Generated("RenderError", out, workflow_path, <<>>, FALSE)
    ELSE
        LET workflow_content == AutogenComment \o RenderPieces(body, package) IN
        IF diff_mode
        THEN IF workflow_path \in DOMAIN out /\ ~out[workflow_path].readable
             THEN Generated("PermissionError", out, workflow_path, workflow_content, FALSE)
             ELSE LET existing_content ==
                          IF workflow_path \in DOMAIN out
                          THEN ReadLines(out[workflow_path].text) ELSE <<>>
                      new_content_lines == SplitLinesKeepEnds(workflow_content)
                  IN  Generated(NoException, out, workflow_path, workflow_content,
                                UnifiedDiffNonEmpty(existing_content, new_content_lines))
        ELSE Generated(NoException, WriteFile(out, workflow_path, workflow_content),
                       workflow_path, workflow_content, FALSE)

-----------------------------------------------------------------------------
(* Template directories and load_templates *)

DefaultTemplateDir == ".github/workflow-templates"

TemplateDirNames == {DefaultTemplateDir, "ci"}

\* template file names, as their '.'-separated pieces, in the order glob lists them
TemplateFileOrder ==
    << <<"package", "template", "yml">>,
       <<"lib", "template", "yml">>,
       <<"lib", "x", "template", "yml">>,
       <<"lib", "", "template", "yml">>,
       <<"lib", "a", "b", "template", "yml">>,
       <<"library", "x", "template", "yml">> >>

\* fnmatch of a file name against f"{template_type}.*.template.yml"
GlobMatches(pieces, template_type) ==
    /\ Len(pieces) >= 4
    /\ pieces[1] = template_type
    /\ pieces[Len(pieces) - 1] = "template"
    /\ pieces[Len(pieces)] = "yml"

Loaded(raised, tmpl, templates) == [raised |-> raised, tmpl |-> tmpl, templates |-> templates]

\* a fallback that forgets that only the default type has a bundled template
UsesBundledAnyType(found_templates, template_type) == found_templates = <<>>

\* line 205: nothing found, and the type is the default type
UsesBundled(found_templates, template_type) ==
    found_templates = <<>> /\ template_type = "package"

\* found_templates of load_templates, lines 186-202: the main template when it
\* exists, then every globbed file whose name has exactly four '.'-pieces
FindTemplates(template_type, templates_dir) ==
    LET main_template_path == <<template_type, "template", "yml">>
        main_found == IF templates_dir.exists /\ main_template_path \in DOMAIN templates_dir.files
                      THEN << [suffix |-> "", path |-> main_template_path] >> ELSE <<>>
        globbed == IF templates_dir.exists
                   THEN SelectSeq(TemplateFileOrder,
                                  LAMBDA f : f \in DOMAIN templates_dir.files
                                             /\ GlobMatches(f, template_type))
                   ELSE <<>>
        conforming == SelectSeq(globbed,
                                LAMBDA parts : Len(parts) = 4 /\ parts[1] = template_type
                                               /\ parts[3] = "template" /\ parts[4] = "yml")
        extras == [i \in 1..Len(conforming) |->
                      [suffix |-> conforming[i][2], path |-> conforming[i]]]
    IN  main_found \o extras

\* load_templates(template_type, workspace_dir, workspace_config, diff_mode)
\* on the template directories `tmpl`, with the bundled default template
load_templates(template_type, tmpl, workspace_config, diff_mode, bundled) ==
    LET template_dir_str == Get(workspace_config, "template_dir", DefaultTemplateDir)
        templates_dir == tmpl[template_dir_str]
        main_template_path == <<template_type, "template", "yml">>
        found_templates == FindTemplates(template_type, templates_dir)
        read(files, found) == [i \in 1..Len(found) |->
                                  [suffix |-> found[i].suffix, body |-> files[found[i].path]]]
    IN
    IF UsesBundled(found_templates, template_type)
    THEN IF bundled.exists
         THEN IF diff_mode
              THEN Loaded(NoException, tmpl, << [suffix |-> "", body |-> bundled.body] >>)
              ELSE LET files == (main_template_path :> bundled.body) @@
                                (IF templates_dir.exists THEN templates_dir.files ELSE <<>>)
                       written == [tmpl EXCEPT ![template_dir_str] =
                                      [exists |-> TRUE, files |-> files]]
                   IN  Loaded(NoException, written,
                              read(files, << [suffix |-> "", path |-> main_template_path] >>))
         ELSE Loaded("FileNotFoundError", tmpl, <<>>)
    ELSE IF found_templates = <<>>
    THEN Loaded("FileNotFoundError", tmpl, <<>>)
    ELSE Loaded(NoException, tmpl, read(templates_dir.files, found_templates))

-----------------------------------------------------------------------------
(* The stale sweep *)

\* a check that forgets the files generated by this run
StaleIgnoringGenerated(out, file, generated_paths) ==
    out[file].readable /\ MarkerInHeader(out[file].text)

\* a check that forgets the banner
StaleWithoutBanner(out, file, generated_paths) ==
    file \notin generated_paths /\ out[file].readable

\* what _check_and_delete_stale_file finds for one file: is it stale
Stale(out, file, generated_paths) ==
    /\ file \notin generated_paths
    /\ out[file].readable
    /\ MarkerInHeader(out[file].text)

\* a sweep that, in diff mode, forgets the files the run would generate
cleanup_stale_workflows_forgetting(out, generated_files, diff_mode) ==
    LET yaml == {f \in DOMAIN out : f.ext \in {"yml", "yaml"}}
        generated == IF diff_mode THEN {} ELSE generated_files
        stale == {f \in yaml : Stale(out, f, generated)}
    IN  IF diff_mode
        THEN [out |-> out, removed |-> {}, would_remove |-> stale]
        ELSE [out |-> [f \in DOMAIN out \ stale |-> out[f]], removed |-> stale,
              would_remove |-> {}]

\* a sweep that unlinks in diff mode too
cleanup_stale_workflows_unlinking(out, generated_files, diff_mode) ==
    LET stale == {f \in DOMAIN out : f.ext \in {"yml", "yaml"}
                                     /\ Stale(out, f, generated_files)}
    IN  [out |-> [f \in DOMAIN out \ stale |-> out[f]], removed |-> stale,
         would_remove |-> {}]

\* cleanup_stale_workflows(output_dir, generated_files, diff_mode): the files
\* of the output directory afterwards, those removed, those reported
cleanup_stale_workflows(out, generated_files, diff_mode) ==
    LET yaml == {f \in DOMAIN out : f.ext = "yml"} \cup {f \in DOMAIN out : f.ext = "yaml"}
        stale == {f \in yaml : Stale(out, f, generated_files)}
    IN  IF diff_mode
        THEN [out |-> out, removed |-> {}, would_remove |-> stale]
        ELSE [out |-> [f \in DOMAIN out \ stale |-> out[f]], removed |-> stale,
              would_remove |-> {}]

-----------------------------------------------------------------------------
(* The command: workspace root, exit status *)

\* is_workspace_root(path) for the workspace directory
is_workspace_root(manifests) ==
    LET m == manifests[Root] IN
    IF m.kind = "missing" THEN [value |-> FALSE, raised |-> NoException]
    ELSE IF m.kind = "toml_error" THEN [value |-> FALSE, raised |-> NoException]
    ELSE IF m.kind = "bad_encoding" THEN [value |-> FALSE, raised |-> "UnicodeDecodeError"]
    ELSE [value |-> m.uv_workspace, raised |-> NoException]

\* exit(main()) with main a click command: click runs the callback in
\* standalone mode, drops the value it returns and ends the process through
\* ctx.exit(), that is with status 0, whether main returned 0 or 1
ExitStatus(rv) == "0"

-----------------------------------------------------------------------------
(* Workspaces the specifications start from *)

TomlError == Manifest("toml_error", Absent, Absent, Absent, Absent, <<"">>, FALSE, Absent)
BadEncoding == Manifest("bad_encoding", Absent, Absent, Absent, Absent, <<"">>, FALSE, Absent)
NoBlock == Manifest("parsed", Absent, Absent, Absent, "string", <<"p">>, FALSE, Absent)
ScalarBlock == Manifest("parsed", "scalar", Absent, Absent, "string", <<"p">>, FALSE, Absent)
GenerateAbsent == Manifest("parsed", "table", Absent, "lib", "string", <<"p">>, TRUE, Absent)
GenerateFalse == Manifest("parsed", "table", "false", "lib", "scalar", <<"">>, TRUE, Absent)

\* a workspace root manifest: [tool.uv.workspace] and the workspace-level block
RootManifest(m, marker, default_tt, template_dir) ==
    [m EXCEPT !.uv_workspace = marker, !.default_template_type = default_tt,
              !.template_dir = template_dir]

\* manifests of directories below the root
SubManifests ==
    { TomlError, BadEncoding, NoBlock, ScalarBlock, GenerateAbsent, GenerateFalse,
      Opted(Absent, Absent, <<"">>, FALSE, "invalid"),
      Opted(Absent, "scalar", <<"">>, FALSE, Absent),
      Opted("lib", "string", <<"x", "p">>, TRUE, "valid") }

RootManifests ==
    { NoManifest,
      RootManifest(NoBlock, TRUE, Absent, Absent),
      RootManifest(GenerateAbsent, TRUE, "tool", Absent),
      RootManifest(Opted(Absent, Absent, <<"">>, TRUE, Absent), TRUE, "tool", "ci") }

\* where the workspace directory is: its absolute path components
WorkspaceLocations == { <<"home", "ws">>, <<"__pycache__", "ws">>, <<>> }

\* every assignment of manifests with at most k manifests below the root
Placements(roots, subs, k) ==
    { [d \in Dirs |-> IF d = Root THEN r ELSE IF d \in DOMAIN f THEN f[d] ELSE NoManifest] :
        r \in roots,
        f \in UNION { [S -> subs] : S \in { T \in SUBSET (Dirs \ {Root}) : Cardinality(T) <= k } } }

NotDiscovered ==
    [ called |-> FALSE, packages |-> <<>>, examined |-> <<>>, raised |-> NoException,
      warnings |-> <<>> ]

NoBundled == [exists |-> FALSE, body |-> <<>>]

EmptyDisk(manifests) ==
    [ manifests |-> manifests,
      tmpl |-> [d \in TemplateDirNames |-> [exists |-> FALSE, files |-> <<>>]],
      outdir |-> FALSE,
      out |-> <<>> ]

\* no run of main yet
Idle ==
    [ pc |-> "idle", diff |-> FALSE, workspace_config |-> EmptyConfig, packages |-> <<>>,
      i |-> 0, todo |-> <<>>, templates_cache |-> <<>>, generated_files |-> {},
      emitted |-> <<>>, diffs |-> <<>>, removed |-> {}, would_remove |-> {},
      error |-> NoException, rv |-> "unset", exit_code |-> "unset" ]

NoPrevious == [valid |-> FALSE]

\* no function called on its own
NoCall == [op |-> "none"]

-----------------------------------------------------------------------------
(* Discovery on its own: main's lines 373 and 380 *)

InitDiscover ==
    /\ env \in [wsParts : WorkspaceLocations, bundled : {NoBundled}]
    /\ fs \in {EmptyDisk(m) : m \in Placements(RootManifests \cup {ScalarBlock, BadEncoding},
                                                SubManifests, MaxManifests)}
    /\ run = Idle
    /\ hist = [runs |-> 0, fs0 |-> fs, prev |-> NoPrevious]
    /\ disc = NotDiscovered
    /\ call = NoCall

CallDiscover ==
    /\ ~disc.called
    /\ disc.raised = NoException
    /\ LET cfg == get_workspace_config(fs.manifests) IN
       disc' = IF cfg.raised # NoException
               THEN [NotDiscovered EXCEPT !.raised = cfg.raised]
               ELSE [called |-> TRUE] @@
                    discover_packages(env.wsParts, fs.manifests, cfg.config)
    /\ UNCHANGED <<call, env, fs, run, hist>>

NextDiscover == CallDiscover

SpecDiscover == InitDiscover /\ [][NextDiscover]_vars

-----------------------------------------------------------------------------
(* main: one invocation after another on the same workspace *)

\* what is kept of a run that ended, for the next one to be compared with
Summary(r, before, after) ==
    [ valid |-> TRUE, diff |-> r.diff, pc |-> r.pc, rv |-> r.rv, exit_code |-> r.exit_code,
      error |-> r.error, fs0 |-> before, fs1 |-> after, emitted |-> r.emitted,
      diffs |-> r.diffs, removed |-> r.removed, would_remove |-> r.would_remove,
      generated_files |-> r.generated_files, packages |-> r.packages ]

\* the ROOT_DIR argument: not given, the workspace directory, or a path that
\* is no existing directory
RootArguments == {"none", "workspace", "missing"}

\* main, lines 345-370: the workspace root, given (and checked) or found.
\* click.Path(exists=True, file_okay=False) refuses a path that is no existing
\* directory before main is entered: a usage error, exit status 2
StartRun(diff, root_dir) ==
    /\ run.pc \in {"idle", "exited"}
    /\ hist.runs < MaxRuns
    /\ hist' = [ runs |-> hist.runs + 1, fs0 |-> fs,
                 prev |-> IF run.pc = "exited" THEN Summary(run, hist.fs0, fs)
                          ELSE hist.prev ]
    /\ LET r == is_workspace_root(fs.manifests)
           fresh == [Idle EXCEPT !.diff = diff]
       IN  run' = IF root_dir = "missing"
                  THEN [Idle EXCEPT !.pc = "exited", !.error = "BadParameter",
                                    !.exit_code = "2"]
                  ELSE IF r.raised # NoException
                  THEN [fresh EXCEPT !.pc = "exited", !.error = r.raised, !.exit_code = "1"]
                  ELSE IF root_dir = "workspace" /\ ~r.value
                  THEN [fresh EXCEPT !.pc = "exited", !.error = "InvalidRoot",
                                     !.exit_code = "1"]
                  ELSE [fresh EXCEPT !.pc = "config"]
    /\ disc' = NotDiscovered
    /\ UNCHANGED <<call, env, fs>>

\* main, lines 372-386: the workspace configuration, the output directory
\* (write mode), the packages
DiscoverPackages ==
    /\ run.pc = "config"
    /\ LET cfg == get_workspace_config(fs.manifests)
           made == IF run.diff THEN fs ELSE [fs EXCEPT !.outdir = TRUE]
           found == discover_packages(env.wsParts, fs.manifests, cfg.config)
       IN  IF cfg.raised # NoException
           THEN /\ run' = [run EXCEPT !.pc = "exited", !.error = cfg.raised,
                                      !.exit_code = "1"]
                /\ UNCHANGED <<fs, disc>>
           ELSE /\ fs' = made
                /\ disc' = [called |-> TRUE] @@ found
                /\ run' = IF found.raised # NoException
                          THEN [run EXCEPT !.pc = "exited", !.error = found.raised,
                                           !.exit_code = "1",
                                           !.workspace_config = cfg.config]
                          ELSE [run EXCEPT !.pc = "package", !.i = 1,
                                           !.workspace_config = cfg.config,
                                           !.packages = found.packages]
    /\ UNCHANGED <<call, env, hist>>

\* main, lines 392-403: the templates of the next package, loaded or cached
LoadTemplates ==
    /\ run.pc = "package"
    /\ run.i <= Len(run.packages)
    /\ LET template_type == run.packages[run.i].template_type
           loaded == IF template_type \in DOMAIN run.templates_cache
                     THEN Loaded(NoException, fs.tmpl, run.templates_cache[template_type])
                     ELSE load_templates(template_type, fs.tmpl, run.workspace_config,
                                         run.diff, env.bundled)
       IN  /\ fs' = [fs EXCEPT !.tmpl = loaded.tmpl]
           /\ run' = IF loaded.raised # NoException
                     THEN [run EXCEPT !.pc = "returned", !.error = loaded.raised, !.rv = "1"]
                     ELSE [run EXCEPT !.pc = "template", !.todo = loaded.templates,
                                      !.templates_cache =
                                          (template_type :> loaded.templates) @@ @]
    /\ UNCHANGED <<call, env, hist, disc>>

\* main, lines 405-416: one (suffix, template) pair of the current package
GenerateWorkflow ==
    /\ run.pc = "template"
    /\ run.todo # <<>>
    /\ LET t == Head(run.todo)
           g == generate_workflow(run.packages[run.i], t.body, fs.out, run.diff, t.suffix)
           last == Tail(run.todo) = <<>>
       IN  /\ fs' = [fs EXCEPT !.out = g.out]
           /\ run' = IF g.raised # NoException
                     THEN [run EXCEPT !.pc = "returned", !.error = g.raised, !.rv = "1"]
                     ELSE [run EXCEPT !.generated_files = @ \cup {g.path},
                                      !.emitted = Append(@, [path |-> g.path, text |-> g.text]),
                                      !.diffs = IF g.diff THEN Append(@, g.path) ELSE @,
                                      !.todo = Tail(@),
                                      !.pc = IF last THEN "package" ELSE "template",
                                      !.i = IF last THEN @ + 1 ELSE @]
    /\ UNCHANGED <<call, env, hist, disc>>

\* main, lines 418-422: every package done, the stale sweep, return 0
Sweep ==
    /\ run.pc = "package"
    /\ run.i > Len(run.packages)
    /\ LET c == cleanup_stale_workflows(fs.out, run.generated_files, run.diff) IN
       /\ fs' = [fs EXCEPT !.out = c.out]
       /\ run' = [run EXCEPT !.pc = "returned", !.rv = "0", !.removed = c.removed,
                             !.would_remove = c.would_remove]
    /\ UNCHANGED <<call, env, hist, disc>>

\* exit(main()), lines 345 and 473-474
Exit ==
    /\ run.pc = "returned"
    /\ run' = [run EXCEPT !.pc = "exited", !.exit_code = ExitStatus(run.rv)]
    /\ UNCHANGED <<call, env, fs, hist, disc>>

-----------------------------------------------------------------------------
(* The workspaces main is run on *)

PathBody == <<"{path}", "NL", "{package_name}", "NL">>
ExtraBody == <<"Extra template", "NL", "{path}", "NL">>
FormFeedBody == <<"{path}", "FF", "{name}", "NL">>
FailingBody == <<"{undefined|filter}", "NL">>
BundledBody == <<"Bundled template", "NL", "{path}", "NL">>

LibMain == <<"lib", "template", "yml">>
LibExtra == <<"lib", "x", "template", "yml">>

\* what the template directory may hold
TemplateSets ==
    { <<>>,
      LibMain :> PathBody,
      (LibMain :> PathBody) @@ (LibExtra :> ExtraBody),
      LibMain :> FailingBody,
      (LibMain :> PathBody) @@ (LibExtra :> FailingBody),
      <<"package", "template", "yml">> :> FormFeedBody,
      LibExtra :> ExtraBody,
      (LibMain :> PathBody) @@ (<<"lib", "", "template", "yml">> :> ExtraBody)
          @@ (<<"lib", "a", "b", "template", "yml">> :> ExtraBody)
          @@ (<<"library", "x", "template", "yml">> :> ExtraBody) }

\* the template directories: the configured one absent, or holding a set
TemplateDisks(workspace_config) ==
    LET configured == Get(workspace_config, "template_dir", DefaultTemplateDir) IN
    { [d \in TemplateDirNames |->
          IF d = configured THEN dir ELSE [exists |-> FALSE, files |-> <<>>]] :
        dir \in {[exists |-> FALSE, files |-> <<>>]}
                \cup {[exists |-> TRUE, files |-> t] : t \in TemplateSets} }

\* files that may be in the output directory before the first run
OutNames ==
    { [stem |-> <<"lib", "p">>, ext |-> "yml"],
      [stem |-> <<"old">>, ext |-> "yaml"],
      [stem |-> <<"notes">>, ext |-> "txt"] }

OutContents ==
    { [text |-> <<"jobs:", "NL">>, readable |-> TRUE],
      [text |-> AutogenComment \o <<"old", "NL">>, readable |-> TRUE],
      [text |-> AutogenComment \o <<"old", "NL">>, readable |-> FALSE],
      [text |-> <<"PAD", "NL">> \o AutogenComment, readable |-> TRUE] }

\* a file of another extension is only of interest when it carries the banner
OutDisks ==
    { d \in UNION { [S -> OutContents] :
                      S \in {T \in SUBSET OutNames : Cardinality(T) <= MaxOutFiles} } :
        \A f \in DOMAIN d :
            f.ext = "txt" => d[f] = [text |-> AutogenComment \o <<"old", "NL">>, readable |-> TRUE] }

\* packages of the default type and of type "lib", with the same project name
MainSubManifests ==
    { Opted(Absent, "string", <<"p">>, FALSE, Absent),
      Opted("lib", "string", <<"p">>, FALSE, Absent) }

MainRootManifests ==
    { NoManifest,
      RootManifest(NoBlock, TRUE, Absent, Absent),
      RootManifest(GenerateAbsent, TRUE, "lib", "ci") }

MainDirs == { <<"libs">>, <<"libs", "core">> }

MainPlacements ==
    { m \in Placements(MainRootManifests, MainSubManifests, MaxManifests) :
        \A d \in Dirs \ (MainDirs \cup {Root}) : m[d] = NoManifest }

Bundled == [exists |-> TRUE, body |-> BundledBody]

Init ==
    /\ env \in [wsParts : {<<"home", "ws">>}, bundled : {Bundled, NoBundled}]
    /\ \E m \in MainPlacements :
         \E t \in TemplateDisks(get_workspace_config(m).config) :
           \E o \in OutDisks :
             \E outdir \in BOOLEAN :
               /\ outdir \/ o = <<>>
               /\ env.bundled = NoBundled => (t = EmptyDisk(m).tmpl /\ o = <<>>)
               /\ fs = [manifests |-> m, tmpl |-> t, outdir |-> outdir, out |-> o]
    /\ run = Idle
    /\ hist = [runs |-> 0, fs0 |-> fs, prev |-> NoPrevious]
    /\ disc = NotDiscovered
    /\ call = NoCall

\* invocations that enter main
Next ==
    \/ \E diff \in BOOLEAN, root_dir \in RootArguments \ {"missing"} : StartRun(diff, root_dir)
    \/ DiscoverPackages
    \/ LoadTemplates
    \/ GenerateWorkflow
    \/ Sweep
    \/ Exit

Spec == Init /\ [][Next]_vars

-----------------------------------------------------------------------------
(* The root argument: every kind of argument, on directories that are and
   are not workspace roots *)

\* what the given directory's pyproject.toml may be
ArgumentRootManifests ==
    { NoManifest, TomlError, NoBlock,
      RootManifest(NoBlock, TRUE, Absent, Absent),
      RootManifest(GenerateAbsent, TRUE, "lib", "ci") }

InitRoot ==
    /\ env = [wsParts |-> <<"home", "ws">>, bundled |-> Bundled]
    /\ \E m \in Placements(ArgumentRootManifests, MainSubManifests, 1) :
         \E t \in TemplateDisks(get_workspace_config(m).config) :
           \E o \in OutDisks :
             /\ \A d \in Dirs \ (MainDirs \cup {Root}) : m[d] = NoManifest
             /\ t[Get(get_workspace_config(m).config, "template_dir", DefaultTemplateDir)]
                  \in { [exists |-> FALSE, files |-> <<>>],
                        [exists |-> TRUE, files |-> (LibMain :> PathBody) @@ (LibExtra :> ExtraBody)] }
             /\ fs = [manifests |-> m, tmpl |-> t, outdir |-> TRUE, out |-> o]
    /\ run = Idle
    /\ hist = [runs |-> 0, fs0 |-> fs, prev |-> NoPrevious]
    /\ disc = NotDiscovered
    /\ call = NoCall

NextRoot ==
    \/ \E diff \in BOOLEAN, root_dir \in RootArguments : StartRun(diff, root_dir)
    \/ DiscoverPackages
    \/ LoadTemplates
    \/ GenerateWorkflow
    \/ Sweep
    \/ Exit

SpecRoot == InitRoot /\ [][NextRoot]_vars

\* the run was turned away for its root argument
RootRejected == run.error \in {"InvalidRoot", "BadParameter"}

\* C14: under SpecRoot, a run given a root argument that is no workspace root ends with
\* status 1 before discovery: no package discovered, no template loaded,
\* and the disk, output directory included, as it was.
C14_InvalidRootFailsFast ==
    (run.pc = "exited" /\ RootRejected) =>
        /\ run.exit_code = "1"
        /\ ~disc.called /\ run.packages = <<>>
        /\ run.templates_cache = <<>>
        /\ fs = hist.fs0


-----------------------------------------------------------------------------
(* Claims about runs of main, under Spec *)

\* the current run has ended: main returned, or the process is gone
Ended == run.pc \in {"returned", "exited"}

\* the current run went through every package and the sweep
Succeeded == Ended /\ run.rv = "0"

\* C1: a run in diff mode leaves the workspace on disk as it was: manifests,
\* template directories, output directory and every file in it.
C1_DiffModeChangesNothing ==
    (run.pc # "idle" /\ run.diff) => fs = hist.fs0

\* a diff run went to its end on a workspace with no template directory, used
\* the bundled template and reported a stale file
C1_Witness ==
    /\ run.diff /\ run.pc = "exited" /\ run.rv = "0"
    /\ run.would_remove # {}
    /\ run.emitted # <<>>
    /\ \A d \in TemplateDirNames : ~fs.tmpl[d].exists

\* the banner's first line is somewhere in the text
CarriesBanner(text) == \E i \in 1..Len(text) : text[i] = MarkerLine

YamlFiles(out) == {f \in DOMAIN out : f.ext \in {"yml", "yaml"}}

\* C2 as stated: after the sweep of a write-mode run, a .yml/.yaml file of the
\* output directory is gone if and only if it carried the banner and was not
\* generated by this run.
C2_DeletedIffBannerAndNotGenerated ==
    (Succeeded /\ ~run.diff) =>
        \A f \in YamlFiles(hist.fs0.out) :
            (f \notin DOMAIN fs.out) <=>
                (CarriesBanner(hist.fs0.out[f].text) /\ f \notin run.generated_files)

\* C2 as amended: the file is gone if and only if the banner's first line is
\* within its first 500 characters, the file can be read, and it was not
\* generated by this run; a file without the banner, and a file of another
\* extension, is never deleted.
C2_DeletedIffStaleAndReadable ==
    (Succeeded /\ ~run.diff) =>
        /\ \A f \in YamlFiles(hist.fs0.out) :
              (f \notin DOMAIN fs.out) <=>
                  /\ MarkerInHeader(hist.fs0.out[f].text)
                  /\ hist.fs0.out[f].readable
                  /\ f \notin run.generated_files
        /\ \A f \in DOMAIN hist.fs0.out :
              (~CarriesBanner(hist.fs0.out[f].text) \/ f \notin YamlFiles(hist.fs0.out))
                  => f \in DOMAIN fs.out
        /\ run.removed = DOMAIN hist.fs0.out \ DOMAIN fs.out

\* a write run generated files, swept, and removed a stale file
C2_Witness ==
    /\ Succeeded /\ ~run.diff
    /\ run.generated_files # {}
    /\ run.removed # {}

\* the run before this one was a write run that succeeded
AfterWrite == hist.prev.valid /\ ~hist.prev.diff /\ hist.prev.rv = "0"

\* C3: a write run right after a write run that succeeded (invoked the same
\* way: it is not turned away for its root argument) succeeds, leaves every
\* output file with the text it had, and its sweep deletes nothing.
C3_WriteIsIdempotent ==
    (AfterWrite /\ ~run.diff /\ run.pc = "exited" /\ ~RootRejected) =>
        /\ run.rv = "0"
        /\ fs.out = hist.prev.fs1.out
        /\ fs.tmpl = hist.prev.fs1.tmpl
        /\ run.removed = {}

\* two write runs in a row, the first of which wrote files and removed one
C3_Witness ==
    /\ AfterWrite /\ ~run.diff /\ run.pc = "exited" /\ run.rv = "0"
    /\ hist.prev.removed # {}
    /\ Len(hist.prev.emitted) >= 2

\* C4: a diff run compares, path by path, the text a write run from the same
\* workspace writes, so a diff run right after a write run that succeeded
\* emits no diff.
C4_DiffAgreesWithWrite ==
    /\ (hist.prev.valid /\ hist.prev.diff /\ hist.prev.rv = "0"
        /\ ~run.diff /\ Succeeded)
          => run.emitted = hist.prev.emitted
    /\ (AfterWrite /\ run.diff /\ run.pc # "idle") => run.diffs = <<>>

\* C5: a failure while loading templates or generating stops the run at that
\* package, skips the sweep, and ends the process with status 1; the status
\* is 0 only when every package was generated.
C5_FailureExitsNonZero ==
    run.pc = "exited" =>
        /\ (run.error # NoException /\ ~RootRejected) =>
              /\ run.exit_code = "1"
              /\ run.removed = {} /\ run.would_remove = {}
        /\ run.exit_code = "0" => (run.error = NoException /\ run.i = Len(run.packages) + 1)

\* C6: a write run that was aborted has created or overwritten no output file.
C6_AbortLeavesNoOutput ==
    (Ended /\ ~run.diff /\ run.rv = "1") => fs.out = hist.fs0.out

\* the (suffix, template) pairs of a package's template type in this run
PairsOf(pkg) == run.templates_cache[pkg.template_type]

\* the output files those pairs name for the package
FilesOf(pkg) ==
    { WorkflowFilename(pkg.template_type, PairsOf(pkg)[k].suffix, pkg.name) :
        k \in 1..Len(PairsOf(pkg)) }

\* C11: after a write run that succeeded, every discovered package has one
\* output file for each (suffix, template) pair of its type's template set,
\* named {type}-{name}.yml for the primary and {type}-{suffix}-{name}.yml for
\* an extra template, and the run generated no other file.
C11_OneFilePerPair ==
    (Succeeded /\ ~run.diff) =>
        /\ \A i \in 1..Len(run.packages) :
              LET pkg == run.packages[i] IN
              /\ pkg.template_type \in DOMAIN run.templates_cache
              /\ Cardinality(FilesOf(pkg)) = Len(PairsOf(pkg))
              /\ FilesOf(pkg) \subseteq DOMAIN fs.out
        /\ run.generated_files = UNION { FilesOf(run.packages[i]) : i \in 1..Len(run.packages) }

\* the directory load_templates searches, and the next package's type
SearchedDir == Get(run.workspace_config, "template_dir", DefaultTemplateDir)

NextType == run.packages[run.i].template_type

\* load_templates is about to be called for a type with no template on disk
LoadsNothingFound ==
    /\ run.pc = "package" /\ run.i <= Len(run.packages)
    /\ NextType \notin DOMAIN run.templates_cache
    /\ FindTemplates(NextType, fs.tmpl[SearchedDir]) = <<>>

\* the call succeeded with the bundled template as its only, primary, entry,
\* and in write mode the main template file now holds the bundled text
BundledLoaded ==
    /\ run'.pc = "template"
    /\ run'.todo = << [suffix |-> "", body |-> env.bundled.body] >>
    /\ run.diff => fs' = fs
    /\ ~run.diff =>
          /\ fs'.tmpl[SearchedDir].exists
          /\ <<"package", "template", "yml">> \in DOMAIN fs'.tmpl[SearchedDir].files
          /\ fs'.tmpl[SearchedDir].files[<<"package", "template", "yml">>] = env.bundled.body
          /\ fs'.out = fs.out

\* the call failed with the template-not-found error and the disk is as it was
NotFoundNothingCreated ==
    /\ run'.pc = "returned" /\ run'.error = "FileNotFoundError"
    /\ fs' = fs

ExtraFiles(T, dir) ==
    IF dir.exists
    THEN { f \in DOMAIN dir.files : /\ Len(f) = 4 /\ f[1] = T /\ f[2] # ""
                                     /\ f[3] = "template" /\ f[4] = "yml" }
    ELSE {}

\* C16: every template set load_templates returned has exactly one primary
\* entry (suffix ""), and besides it one entry, with a suffix of its own,
\* for each file named T.{suffix}.template.yml; no other file has an entry.
C16_OnePrimaryDistinctExtras ==
    \A T \in DOMAIN run.templates_cache :
        LET set == run.templates_cache[T] IN
        /\ Cardinality({k \in 1..Len(set) : set[k].suffix = ""}) = 1
        /\ \A j, k \in 1..Len(set) : j # k => set[j].suffix # set[k].suffix
        /\ {set[k].suffix : k \in 1..Len(set)} \ {""}
              = {f[2] : f \in ExtraFiles(T, fs.tmpl[SearchedDir])}

\* the run before this one was a diff run that succeeded
AfterDiff == hist.prev.valid /\ hist.prev.diff /\ hist.prev.rv = "0"

-----------------------------------------------------------------------------
(* Claims about discovery, under SpecDiscover *)

\* the directory a package was discovered in
DirOf(pkg) == IF pkg.path = <<".">> THEN Root ELSE pkg.path

\* how many of the returned packages come from directory d
TimesReturned(d) == Cardinality({i \in 1..Len(disc.packages) : DirOf(disc.packages[i]) = d})

\* a manifest that cannot be read as the documented document: not TOML, not
\* UTF-8, or with the generation block or the project name of another shape
Malformed(m) ==
    \/ m.kind \in {"toml_error", "bad_encoding"}
    \/ m.kind = "parsed" /\ (m.block = "scalar" \/ m.name_shape = "scalar")

\* a well-formed manifest that opts in: generate = true in its generation block
OptsIn(m) == m.kind = "parsed" /\ m.block = "table" /\ m.generate = "true" /\ ~Malformed(m)

\* named with a leading '.' or __pycache__
ExcludedName(name) == name \in {".venv", ".github", "__pycache__"}

\* the candidates of the scan: the root, and every directory with no excluded
\* directory on its path from the root
Candidate(d) == \A i \in 1..Len(d) : ~ExcludedName(d[i])

\* C7: a malformed manifest never aborts discovery: discover_packages returns
\* normally, leaves out the malformed candidates and returns every other
\* candidate that opts in.
C7_MalformedNeverAborts ==
    disc.called =>
        /\ disc.raised = NoException
        /\ \A d \in Dirs : Candidate(d) =>
              /\ Malformed(fs.manifests[d]) => TimesReturned(d) = 0
              /\ OptsIn(fs.manifests[d]) => TimesReturned(d) = 1

\* C8: discover_packages returns a PackageSpec for a candidate directory if
\* and only if its manifest's generation block has generate = true, and each
\* such directory exactly once; any other directory never appears.
C8_ReturnedIffOptedIn ==
    disc.called =>
        \A d \in Dirs :
            /\ (Candidate(d) /\ OptsIn(fs.manifests[d])) => TimesReturned(d) = 1
            /\ (fs.manifests[d].kind \in {"missing", "toml_error", "bad_encoding"}
                \/ fs.manifests[d].block # "table"
                \/ fs.manifests[d].generate # "true") => TimesReturned(d) = 0

\* C9: the root is always examined; a directory named with a leading '.' or
\* __pycache__ is never examined, nor is any directory below it, and no
\* package from there is returned.
C9_ExclusionIsStructural ==
    disc.called =>
        /\ Root \in Parts(disc.examined)
        /\ \A d \in Dirs : ~Candidate(d) =>
              /\ d \notin Parts(disc.examined)
              /\ TimesReturned(d) = 0

\* a package that opts in lies below an excluded directory, another one does
\* not, and the scan returned
C9_Witness ==
    /\ disc.called /\ disc.raised = NoException
    /\ OptsIn(fs.manifests[<<".venv", "core">>])
    /\ TimesReturned(<<"libs">>) = 1

\* C10: templateType is the package's template_type, else the workspace's
\* default_template_type, else "package"; the four other settings are the
\* package's own value, else "mypy", true, false, false, whatever the
\* workspace block says.
C10_LayeredResolution ==
    \A i \in 1..Len(disc.packages) :
        LET pkg == disc.packages[i]
            m == fs.manifests[DirOf(pkg)]
            ws == fs.manifests[Root]
        IN  /\ pkg.template_type =
                  (IF m.template_type # Absent THEN m.template_type
                   ELSE IF ws.kind = "parsed" /\ ws.block = "table"
                           /\ ws.default_template_type # Absent
                        THEN ws.default_template_type
                   ELSE "package")
            /\ pkg.typechecker = (IF m.typechecker # Absent THEN m.typechecker ELSE "mypy")
            /\ pkg.generate_typechecking_step =
                  (IF m.generate_typechecking_step # Absent
                   THEN m.generate_typechecking_step ELSE "true")
            /\ pkg.generate_standard_pytest_step =
                  (IF m.generate_standard_pytest_step # Absent
                   THEN m.generate_standard_pytest_step ELSE "false")
            /\ pkg.generate_alembic_migration_check_step =
                  (IF m.generate_alembic_migration_check_step # Absent
                   THEN m.generate_alembic_migration_check_step ELSE "false")

\* a package with no setting of its own was discovered in a workspace whose
\* root block sets default_template_type and the four settings
C10_Witness ==
    \E i \in 1..Len(disc.packages) :
        /\ DirOf(disc.packages[i]) # Root
        /\ fs.manifests[DirOf(disc.packages[i])].template_type = Absent
        /\ fs.manifests[DirOf(disc.packages[i])].typechecker = Absent
        /\ fs.manifests[Root].default_template_type = "tool"
        /\ fs.manifests[Root].typechecker = "ty"
        /\ disc.packages[i].template_type = "tool"

-----------------------------------------------------------------------------
(* Functions called on their own *)

\* a workspace with no manifest at all, for the calls that read no disk
NoWorkspace == EmptyDisk([d \in Dirs |-> NoManifest])

\* a project name has at most this many '-'-separated pieces
MaxNamePieces == 2

NamePieces == {"p", "x", ""}

Names == UNION { [1..n -> NamePieces] : n \in 1..MaxNamePieces }

\* (template_type, suffix, name)
Triples == [template_type : {"lib", "package"}, suffix : {"", "x", "p"}, name : Names]

InitFilename ==
    /\ env = [wsParts |-> <<"home", "ws">>, bundled |-> NoBundled]
    /\ fs = NoWorkspace
    /\ run = Idle
    /\ hist = [runs |-> 0, fs0 |-> fs, prev |-> NoPrevious]
    /\ disc = NotDiscovered
    /\ \E a \in Triples, b \in Triples :
         call = [op |-> "filename", done |-> FALSE, a |-> a, b |-> b,
                 file_a |-> "none", file_b |-> "none"]

\* lines 269-274 applied to both triples
DeriveFilenames ==
    /\ call.op = "filename" /\ ~call.done
    /\ call' = [call EXCEPT
                  !.done = TRUE,
                  !.file_a = WorkflowFilename(call.a.template_type, call.a.suffix, call.a.name),
                  !.file_b = WorkflowFilename(call.b.template_type, call.b.suffix, call.b.name)]
    /\ UNCHANGED <<env, fs, run, hist, disc>>

NextFilename == DeriveFilenames

SpecFilename == InitFilename /\ [][NextFilename]_vars

\* the file name as the string the code builds
FileString(file) == JoinWith(file.stem, "-") \o "." \o file.ext

\* C13 as stated, under SpecFilename: two distinct (templateType, suffix,
\* name) triples never derive the same file name.
C13_DistinctTriplesDistinctNames ==
    (call.op = "filename" /\ call.done /\ call.a # call.b) =>
        FileString(call.file_a) # FileString(call.file_b)

\* no '-' in the name (template types and suffixes of the model have none)
HyphenFree(triple) == Len(triple.name) = 1

\* C13 as amended, under SpecFilename: two distinct triples with no '-' in
\* any component derive different file names.
C13_HyphenFreeTriplesDistinctNames ==
    (call.op = "filename" /\ call.done
     /\ call.a # call.b /\ HyphenFree(call.a) /\ HyphenFree(call.b))
        => FileString(call.file_a) # FileString(call.file_b)

\* two triples without '-' that differ only in the suffix
C13_Witness ==
    /\ call.op = "filename" /\ call.done
    /\ HyphenFree(call.a) /\ HyphenFree(call.b)
    /\ call.a.template_type = call.b.template_type /\ call.a.name = call.b.name
    /\ call.a.suffix = "" /\ call.b.suffix = "x"
    /\ call.file_a.stem = <<"lib", "p">> /\ call.file_b.stem = <<"lib", "x", "p">>

\* manifests of one candidate directory: the project name present, present
\* but empty, of several pieces, or absent; and manifests that are not accepted
NamedManifests ==
    { Opted(Absent, "string", <<"p">>, FALSE, Absent),
      Opted("lib", "string", <<"">>, FALSE, Absent),
      Opted("lib", "string", <<"x", "p">>, TRUE, "valid"),
      Opted(Absent, Absent, <<"">>, FALSE, Absent),
      Opted("lib", Absent, <<"">>, TRUE, "invalid"),
      NoBlock, GenerateAbsent, GenerateFalse, TomlError, NoManifest }

InitDirectory ==
    /\ env \in [wsParts : WorkspaceLocations, bundled : {NoBundled}]
    /\ fs = NoWorkspace
    /\ run = Idle
    /\ hist = [runs |-> 0, fs0 |-> fs, prev |-> NoPrevious]
    /\ disc = NotDiscovered
    /\ \E target \in {Root, <<"libs">>, <<"libs", "core">>}, m \in NamedManifests,
          cfg \in {EmptyConfig, RootManifest(GenerateAbsent, TRUE, "tool", Absent)} :
         call = [op |-> "discover_in_directory", done |-> FALSE, target |-> target,
                 manifest |-> m, workspace_config |-> cfg,
                 result |-> Found(<<>>, NoException, FALSE)]

\* _discover_in_directory on the one directory, as discover_packages calls it
CallDiscoverInDirectory ==
    /\ call.op = "discover_in_directory" /\ ~call.done
    /\ call' = [call EXCEPT
                  !.done = TRUE,
                  !.result = DiscoverInDirectory(
                                 env.wsParts,
                                 [d \in Dirs |-> IF d = call.target THEN call.manifest
                                                  ELSE NoManifest],
                                 call.target, call.workspace_config, call.target = Root)]
    /\ UNCHANGED <<env, fs, run, hist, disc>>

NextDirectory == CallDiscoverInDirectory

SpecDirectory == InitDirectory /\ [][NextDirectory]_vars

\* C15, under SpecDirectory: every package _discover_in_directory returns
\* has a name that is not the empty string, whether the project name is
\* present, present but empty, or absent, in the root and below it.
C15_NameNonEmpty ==
    (call.op = "discover_in_directory" /\ call.done) =>
        \A i \in 1..Len(call.result.packages) :
            JoinWith(call.result.packages[i].name, "-") # ""

====
